---- MODULE Spec2Model ----
(***************************************************************************)
(* The monitor process supervisor of SentinelApp.                          *)
(*                                                                         *)
(* Part I models src/main/main.ts: the module variables sentinelProcess    *)
(* and sentinelUserId, startSentinelMonitor, stopSentinelMonitor,          *)
(* checkSentinelStatus, the 'update-sentinel-user' IPC handler and the     *)
(* listeners that startSentinelMonitor / stopSentinelMonitor attach to a   *)
(* spawned child.  Every action is one event-loop callback run to          *)
(* completion; an `await` of an already settled promise (isProcessRunning, *)
(* stopSentinelMonitor) is part of the same action, an `await` of an exec  *)
(* callback or of a timer ends the action and a later action resumes it.   *)
(*                                                                         *)
(* Spec is the supervisor with every interleaving of its callbacks;        *)
(* FairSpec adds what the event loop and the operating system guarantee.   *)
(*                                                                         *)
(* Part II (ChunkSpec) looks inside the 'data' listeners of main.ts: a     *)
(* tracked child writes some lines and the pipe delivers them cut into     *)
(* chunks at arbitrary places.                                             *)
(*                                                                         *)
(* Part III (SvcSpec) models src/backend/sentinel-service.js, the HTTP     *)
(* service with its own sentinelProcess and processInfo.                   *)
(*                                                                         *)
(* A child is identified by its pid.  The k-th call of                     *)
(* startSentinelMonitor spawns, if it spawns at all, the child of pid k,   *)
(* so pids are never reused.                                               *)
(***************************************************************************)
EXTENDS Integers, Sequences, FiniteSets, TLC

\* ---------------------------------------------------------------- bounds
\* number of lines a child writes in ChunkSpec
MaxLines == 2
\* number of startSentinel calls (and so of children) in SvcSpec
MaxSvcStarts == 2
\* number of startSentinelMonitor calls (and so of children) in a behaviour
MaxStarts == 2
\* number of marker substrings one chunk of child output may contain
MaxChunk == 1

\* ------------------------------------------------------------- constants
Pids == 1..MaxStarts
NoPid == 0
\* main.ts never compares two user ids, it only stores and forwards them:
\* the k-th request carries its own user id, so that every mix-up of the
\* ids of two requests is visible.
UserIds == <<"u1", "u2", "u3", "u4">>
Users == {UserIds[k] : k \in Pids}
NoUser == "null"
Platforms == {"win32", "posix"}

\* What spawn() can do: return a child with a pid; return a child without a
\* pid, which emits 'error' on the next tick; throw.
SpawnResults == {"pid", "nopid", "throws"}

\* The raw user id of an 'update-sentinel-user' message: a user id, a user id
\* within blanks, an empty string or blanks only.
Blank == {"", " "}
pad(u) == " " \o u \o " "
\* String.prototype.trim
trim(raw) ==
    IF raw \in Blank THEN ""
    ELSE IF \E i \in 1..Len(UserIds) : raw = pad(UserIds[i])
    THEN UserIds[CHOOSE i \in 1..Len(UserIds) : raw = pad(UserIds[i])]
    ELSE raw

\* appConfig.requireAdminPrivileges
requireAdminPrivileges == FALSE

\* marker substrings the output handlers look for
READY == "SENTINEL_READY"
INTEGRATED == "SENTINEL_INTEGRATED=true detected"
FatalMarkers == {"FATAL", "CRITICAL", "Traceback"}
AdminMarkers == {"requires administrator privileges", "run as administrator"}
Tokens == {READY, INTEGRATED} \cup FatalMarkers \cup AdminMarkers

\* A chunk of child output, as the set of marker substrings it contains;
\* the empty set is output without any marker.
Chunks == {c \in SUBSET Tokens : Cardinality(c) <= MaxChunk}

\* String.prototype.includes on a chunk
includes(chunk, marker) == marker \in chunk

\* exit codes a 'close' event carries; "1" stands for every code other than
\* 0, the null code of a child that a signal terminated included
ExitCodes == {"0", "1"}

VARIABLES
    platform,          \* process.platform
    sentinelProcess,   \* pid of the tracked ChildProcess, NoPid for null
    sentinelUserId,    \* the stored user id, NoUser for null
    children,          \* pid -> the child, its listeners and their closure
    calls,             \* k -> the k-th call of startSentinelMonitor
    lastUpdate,        \* the last 'sentinel-status-update' sent
    emitted,           \* what the last callback sent to the renderer
    ret,               \* what the last callback returned to its caller
    stream,            \* Part II: the text a child writes and its delivery
    svc                \* Part III: the state of sentinel-service.js

vars == <<platform, sentinelProcess, sentinelUserId, children, calls,
          lastUpdate, emitted, ret, stream, svc>>

\* ------------------------------------------------------------- messages
\* A 'sentinel-status-update' payload.  pid = NoPid and userId = NoUser
\* stand for an absent field, error = {} for no error field, full tells
\* whether the payload carries admin and requiresAdmin.
Upd(running, status, pid, userId, error, full) ==
    [ch |-> "sentinel-status-update", running |-> running, status |-> status,
     pid |-> pid, userId |-> userId, error |-> error, full |-> full,
     code |-> "0"]

\* The channels 'sentinel-output', 'sentinel-error', 'sentinel-warning' and
\* 'sentinel-start-failed' carry text for display only and are not recorded.

\* A 'sentinel-stopped' payload {code, signal}
StoppedEvt(code) ==
    [ch |-> "sentinel-stopped", running |-> FALSE, status |-> "",
     pid |-> NoPid, userId |-> NoUser, error |-> {}, full |-> FALSE,
     code |-> code]

NotStarted == Upd(FALSE, "not-started", NoPid, NoUser, {}, FALSE)

StatusUpdates(out) == SelectSeq(out, LAMBDA m : m.ch = "sentinel-status-update")

\* the statuses of the status updates of out, in order
Statuses(out) ==
    [i \in 1..Len(StatusUpdates(out)) |-> StatusUpdates(out)[i].status]

\* the last status update of out, or prev when out holds none
LastStatus(out, prev) ==
    LET s == StatusUpdates(out)
    IN  IF Len(s) = 0 THEN prev ELSE s[Len(s)]

\* ---------------------------------------------------------------- state
\* The part of the state the callbacks of main.ts read and write, as one
\* record, so that a callback that calls another is one action.
\*   proc  sentinelProcess      uid  sentinelUserId
\*   ch    children             out  messages sent so far by this callback
Here == [proc |-> sentinelProcess, uid |-> sentinelUserId,
         ch |-> children, out |-> <<>>]

Send(s, m) == [s EXCEPT !.out = Append(@, m)]

Unborn == [state |-> "unborn", code |-> "0", closeL |-> "none",
           errL |-> FALSE,
           isReady |-> FALSE, earlyExit |-> FALSE,
           detectedIntegratedMode |-> FALSE, userId |-> NoUser,
           signal |-> "none", killTimer |-> FALSE]

\* process.kill(pid, 0) succeeds
isProcessRunning(s, pid) ==
    /\ pid # NoPid
    /\ s.ch[pid].state = "alive"

\* What a callback returns: of stopSentinelMonitor {success},
\* of checkSentinelStatus the status record; NoRet for the callbacks whose
\* result nobody reads (the result of startSentinelMonitor is in calls).
Ret(op, success, running, status, pid, userId, lastError) ==
    [op |-> op, success |-> success, running |-> running, status |-> status,
     pid |-> pid, userId |-> userId, lastError |-> lastError]
NoRet == Ret("none", FALSE, FALSE, "", NoPid, NoUser, FALSE)
\* the callback ended in an exception that nothing caught
Uncaught == Ret("uncaught", FALSE, FALSE, "", NoPid, NoUser, TRUE)
StopRet(res) == Ret("stop", res = "ok", FALSE, "", NoPid, NoUser, FALSE)

\* process.platform === 'win32' && !isDev && appConfig.requireAdminPrivileges;
\* requireAdminPrivileges is never set to true, so isDev cannot matter
requiresAdmin == platform = "win32" /\ requireAdminPrivileges

\* ------------------------------------------------------- faulty variants
\* Variants of definitions below, each with one plausible fault; a property
\* that holds of main.ts has to fail for the variant it is paired with.

\* the listeners' guard left out
staleOutput_off(s, pid) == FALSE

\* only FATAL is looked for
isFatal_onlyFATAL(chunk) == includes(chunk, "FATAL")

\* stop without a handle returns without publishing 'Stopped'
stopNoHandle_silent(s) == [st |-> s, res |-> "ok"]

\* the stale handle is reported but not cleared
checkSentinelStatus_keepsHandle(s) ==
    IF s.proc # NoPid /\ isProcessRunning(s, s.proc)
    THEN [st |-> s,
          q |-> Ret("status", TRUE, TRUE, "Running", s.proc, s.uid, FALSE)]
    ELSE IF s.proc # NoPid
    THEN [st |-> s,
          q |-> Ret("status", TRUE, FALSE, "Crashed / Stale Handle", s.proc,
                    s.uid, TRUE)]
    ELSE [st |-> s,
          q |-> Ret("status", TRUE, FALSE, "Stopped", NoPid, s.uid, FALSE)]

\* the post-grace 'Initializing' refresh is sent whether or not the child
\* has reported ready
graceDone_refreshAlways(s, k) ==
    LET c == s.ch[k]
    IN  IF c.detectedIntegratedMode
        THEN IF s.proc # NoPid /\ isProcessRunning(s, k)
             THEN [st |-> s, pc |-> "done", res |-> "ok"]
             ELSE [st |-> s, pc |-> "done", res |-> "fail"]
        ELSE IF c.earlyExit \/ (s.proc = k /\ ~isProcessRunning(s, k))
        THEN [st |-> IF s.proc = k THEN [s EXCEPT !.proc = NoPid] ELSE s,
              pc |-> "done", res |-> "fail"]
        ELSE [st |-> IF s.proc = k
                     THEN Send(s, Upd(TRUE, "Initializing", k, s.uid, {},
                                      TRUE))
                     ELSE s,
              pc |-> "done", res |-> "ok"]

\* the post-grace failure branch clears the handle without comparing pids
graceDone_clearsAlways(s, k) ==
    LET c == s.ch[k]
    IN  IF c.detectedIntegratedMode
        THEN IF s.proc # NoPid /\ isProcessRunning(s, k)
             THEN [st |-> s, pc |-> "done", res |-> "ok"]
             ELSE [st |-> s, pc |-> "done", res |-> "fail"]
        ELSE IF c.earlyExit \/ (s.proc = k /\ ~isProcessRunning(s, k))
        THEN [st |-> [s EXCEPT !.proc = NoPid],
              pc |-> "done", res |-> "fail"]
        ELSE [st |-> IF ~c.isReady /\ s.proc = k
                     THEN Send(s, Upd(TRUE, "Initializing", k, s.uid, {},
                                      TRUE))
                     ELSE s,
              pc |-> "done", res |-> "ok"]

\* a spawn without a pid leaves the pid-less child in the handle
spawnSection_keepsHandle(s, k, u, spawned) ==
    LET s1 == Send(s, Upd(FALSE, "Starting...", NoPid, NoUser, {}, FALSE))
        s2 == [s1 EXCEPT !.proc = NoPid]
    IN  IF spawned = "throws"
        THEN [st |-> Send(s2, Upd(FALSE, "Start Error", NoPid, NoUser, {},
                                  FALSE)),
              pc |-> "done", res |-> "fail"]
        ELSE IF spawned = "nopid"
        THEN [st |-> Send([s2 EXCEPT !.ch[k].state = "failed", !.proc = k],
                          Upd(FALSE, "Error: Spawn Failed", NoPid, NoUser,
                              {}, FALSE)),
              pc |-> "done", res |-> "fail"]
        ELSE LET s3 == [s2 EXCEPT !.proc = k,
                                  !.ch[k] = [Unborn EXCEPT !.state = "alive",
                                                           !.closeL = "start",
                                                           !.errL = TRUE,
                                                           !.userId = u]]
             IN  [st |-> Send(s3, Upd(TRUE, "Initializing", k, u, {}, TRUE)),
                  pc |-> "grace", res |-> "none"]

\* the handler tests the raw user id without trimming it
isUserId_untrimmed(raw) == raw # ""

\* SENTINEL_READY publishes 'Running' whether or not integrated mode was
\* detected
stdoutData_readyAlways(s, k, chunk) ==
    IF s.proc # k THEN s
    ELSE LET s1 == IF includes(chunk, INTEGRATED)
                   THEN Send([s EXCEPT !.ch[k].detectedIntegratedMode = TRUE],
                             Upd(TRUE, "Running (Integrated)", k,
                                 s.ch[k].userId, {}, TRUE))
                   ELSE s
         IN  IF includes(chunk, READY)
             THEN Send([s1 EXCEPT !.ch[k].isReady = TRUE],
                       Upd(TRUE, "Running", k, s1.uid, {}, TRUE))
             ELSE s1

\* -------------------------------------------------- stopSentinelMonitor
\* process.kill(pid, 'SIGTERM') throws ESRCH for a pid that is gone
killThrows(s, pid) == s.ch[pid].state # "alive"

\* removeAllListeners('close') followed by once('close', ...)
replaceCloseListener(s, pid) == [s EXCEPT !.ch[pid].closeL = "stop"]

\* the branch of stopSentinelMonitor taken when sentinelProcess is null
stopNoHandle(s) ==
    [st |-> Send(s, Upd(FALSE, "Stopped", NoPid, NoUser, {}, TRUE)),
     res |-> "ok"]

\* the branch of stopSentinelMonitor taken when a handle is tracked
stopHandle(s) ==
    LET pid == s.proc
        s1 == replaceCloseListener(s, pid)
    IN  IF platform = "win32"
        THEN [st |-> [s1 EXCEPT !.ch[pid].signal = "taskkill",
                                !.proc = NoPid],
              res |-> "ok"]
        ELSE IF killThrows(s1, pid)
        THEN [st |-> s1, res |-> "fail"]
        ELSE [st |-> [s1 EXCEPT !.ch[pid].signal = "SIGTERM",
                                !.ch[pid].killTimer = TRUE,
                                !.proc = NoPid],
              res |-> "ok"]

stopSentinelMonitor(s) ==
    IF s.proc = NoPid THEN stopNoHandle(s) ELSE stopHandle(s)

\* ------------------------------------------------- startSentinelMonitor
\* the listeners' guard `sentinelProcess?.pid !== currentPid`
staleOutput(s, pid) == s.proc # pid

\* 'Starting...', the reset of sentinelProcess, spawn, and what follows it
\* in the same turn; a spawn that throws ends in the catch-all.  A child
\* without a pid gets no listener at all.
spawnSection(s, k, u, spawned) ==
    LET s1 == Send(s, Upd(FALSE, "Starting...", NoPid, NoUser, {}, FALSE))
        s2 == [s1 EXCEPT !.proc = NoPid]
    IN  IF spawned = "throws"
        THEN [st |-> Send(s2, Upd(FALSE, "Start Error", NoPid, NoUser, {},
                                  FALSE)),
              pc |-> "done", res |-> "fail"]
        ELSE IF spawned = "nopid"
        THEN [st |-> Send([s2 EXCEPT !.ch[k].state = "failed"],
                          Upd(FALSE, "Error: Spawn Failed", NoPid, NoUser,
                              {}, FALSE)),
              pc |-> "done", res |-> "fail"]
        ELSE LET s3 == [s2 EXCEPT !.proc = k,
                                  !.ch[k] = [Unborn EXCEPT !.state = "alive",
                                                           !.closeL = "start",
                                                           !.errL = TRUE,
                                                           !.userId = u]]
             IN  [st |-> Send(s3, Upd(TRUE, "Initializing", k, u, {}, TRUE)),
                  pc |-> "grace", res |-> "none"]

\* startSentinelMonitor from its entry to its first suspension or return
startEntry(s, k, u, scriptExists, venvPython, spawned) ==
    LET s0 == [s EXCEPT !.uid = u]
        s1 == IF s0.proc # NoPid /\ isProcessRunning(s0, s0.proc)
              THEN stopSentinelMonitor(s0).st
              ELSE IF s0.proc # NoPid
              THEN [s0 EXCEPT !.proc = NoPid]
              ELSE s0
    IN  IF u = NoUser \/ u = ""
        THEN [st |-> Send(s1, Upd(FALSE, "Stopped (No User ID)", NoPid,
                                  NoUser, {}, TRUE)),
              pc |-> "done", res |-> "fail"]
        ELSE IF requiresAdmin
        THEN [st |-> Send(s1, Upd(TRUE, "Running (Integrated)", NoPid, u,
                                  {}, TRUE)),
              pc |-> "done", res |-> "ok"]
        ELSE IF ~scriptExists
        THEN [st |-> Send(s1,
                          Upd(FALSE, "Error: Script Missing", NoPid, NoUser,
                              {}, TRUE)),
              pc |-> "done", res |-> "fail"]
        ELSE IF venvPython
        THEN spawnSection(s1, k, u, spawned)
        ELSE [st |-> s1,
              pc |-> "lookup", res |-> "none"]

\* the callback of exec(`which python3`): found or not
lookupDone(s, k, u, found, spawned) ==
    IF ~found
    THEN [st |-> Send(s,
                      Upd(FALSE, "Error: Python Not Found", NoPid, NoUser,
                          {}, FALSE)),
          pc |-> "done", res |-> "fail"]
    ELSE spawnSection(s, k, u, spawned)

\* after the 1500 ms timer
graceDone(s, k) ==
    LET c == s.ch[k]
    IN  IF c.detectedIntegratedMode
        THEN IF s.proc # NoPid /\ isProcessRunning(s, k)
             THEN [st |-> s, pc |-> "done", res |-> "ok"]
             ELSE [st |-> s, pc |-> "done", res |-> "fail"]
        ELSE IF c.earlyExit \/ (s.proc = k /\ ~isProcessRunning(s, k))
        THEN [st |-> IF s.proc = k THEN [s EXCEPT !.proc = NoPid] ELSE s,
              pc |-> "done", res |-> "fail"]
        ELSE [st |-> IF ~c.isReady /\ s.proc = k
                     THEN Send(s, Upd(TRUE, "Initializing", k, s.uid, {},
                                      TRUE))
                     ELSE s,
              pc |-> "done", res |-> "ok"]

\* ------------------------------------------------ listeners of a child
isFatal(chunk) == \E m \in FatalMarkers : includes(chunk, m)

\* sentinelProcess.stdout.on('data')
stdoutData(s, k, chunk) ==
    IF staleOutput(s, k) THEN s
    ELSE LET s1 == IF includes(chunk, INTEGRATED)
                   THEN Send([s EXCEPT !.ch[k].detectedIntegratedMode = TRUE],
                             Upd(TRUE, "Running (Integrated)", k,
                                 s.ch[k].userId, {}, TRUE))
                   ELSE s
             s2 == IF includes(chunk, READY)
                   THEN LET r == [s1 EXCEPT !.ch[k].isReady = TRUE]
                        IN  IF ~r.ch[k].detectedIntegratedMode
                            THEN Send(r, Upd(TRUE, "Running", k, r.uid, {},
                                             TRUE))
                            ELSE r
                   ELSE s1
         IN  s2

\* sentinelProcess.stderr.on('data')
stderrData(s, k, chunk) ==
    IF staleOutput(s, k) THEN s
    ELSE LET s1 == s
         IN  IF isFatal(chunk)
             THEN Send(s1, Upd(FALSE, "Error", k, s1.uid, chunk, TRUE))
             ELSE s1

\* the status the 'close' listener of startSentinelMonitor reports
closeStatus(c, code) ==
    IF c.detectedIntegratedMode
    THEN "Error: Integrated Monitor Crashed"
    ELSE IF code = "0" THEN "Stopped"
    ELSE "Exited (code " \o code \o ", signal null)"

\* sentinelProcess.on('close') of startSentinelMonitor
startClose(s, k, code) ==
    LET s1 == [s EXCEPT !.ch[k].earlyExit = TRUE]
        s2 == IF s1.proc = k THEN [s1 EXCEPT !.proc = NoPid] ELSE s1
    IN  Send(Send(s2, StoppedEvt(code)),
             Upd(FALSE, closeStatus(s.ch[k], code), k, s2.uid, {}, TRUE))

\* sentinelProcess.once('close') of stopSentinelMonitor
stopClose(s, k, code) ==
    Send(s, Upd(FALSE, "Stopped by User", k, s.uid, {}, TRUE))

\* sentinelProcess.on('error') of startSentinelMonitor.  Node emits 'error'
\* on a child that has a pid only when child.kill() or child.send() fails,
\* and main.ts calls neither, so no action delivers it; the listener is
\* modelled for the properties that speak about it.
startError(s, k) ==
    LET s1 == [s EXCEPT !.ch[k].earlyExit = TRUE]
        s2 == IF s1.proc = k THEN [s1 EXCEPT !.proc = NoPid] ELSE s1
    IN  Send(s2, Upd(FALSE, "Failed to Start/Run", k, s2.uid, {"err.message"},
                     TRUE))

\* the setTimeout callback of stopSentinelMonitor: SIGKILL if the child is
\* still the tracked one
killTimerFired(s, k) ==
    LET s1 == [s EXCEPT !.ch[k].killTimer = FALSE]
    IN  IF s1.proc = k
        THEN IF s1.ch[k].state = "alive"
             THEN [s1 EXCEPT !.ch[k].state = "exited", !.ch[k].code = "1",
                             !.ch[k].signal = "SIGKILL"]
             ELSE s1
        ELSE s1

\* -------------------------------------------------- checkSentinelStatus
checkSentinelStatus(s) ==
    LET currentPid == s.proc
    IN  IF s.proc # NoPid /\ isProcessRunning(s, currentPid)
        THEN [st |-> s,
              q |-> Ret("status", TRUE, TRUE, "Running", currentPid, s.uid,
                        FALSE)]
        ELSE IF s.proc # NoPid
        THEN [st |-> [s EXCEPT !.proc = NoPid],
              q |-> Ret("status", TRUE, FALSE, "Crashed / Stale Handle",
                        currentPid, s.uid, TRUE)]
        ELSE [st |-> s,
              q |-> Ret("status", TRUE, FALSE, "Stopped", NoPid, s.uid,
                        FALSE)]

\* ----------------------------------------------------------------- Init
\* no child output is being followed piece by piece
NoStream == [on |-> "stdout", lines |-> <<>>, pos |-> 0, seen |-> <<>>]

\* a ChildProcess of the service that was not spawned yet
SvcPids == 1..MaxSvcStarts
SvcUnborn == [state |-> "unborn", code |-> "0", signalled |-> FALSE,
              replaced |-> FALSE]

\* sentinelProcess = null and the initial processInfo of the service
SvcInit ==
    [up |-> TRUE, proc |-> NoPid,
     running |-> FALSE, pid |-> NoPid, userId |-> NoUser,
     adminMode |-> FALSE, adminRequired |-> FALSE, lastError |-> "null",
     kids |-> [k \in SvcPids |-> SvcUnborn],
     res |-> "none"]

Init ==
    /\ platform \in Platforms
    /\ sentinelProcess = NoPid
    /\ sentinelUserId = NoUser
    /\ children = [k \in Pids |-> Unborn]
    /\ calls = [k \in Pids |-> [pc |-> "idle", res |-> "none"]]
    /\ lastUpdate = NotStarted
    /\ emitted = <<>>
    /\ ret = NoRet
    /\ stream = NoStream
    /\ svc = SvcInit

\* Variables of a closure that nothing can read again are dropped from the
\* state (set to their initial value):
\*   - everything but a pending kill timer, once the 'close' event has been
\*     delivered and the call has returned;
\*   - isReady, read only by the continuation of the call, once the call
\*     has returned;
\*   - detectedIntegratedMode, read by the continuation, by the 'close'
\*     listener of startSentinelMonitor and by the stdout listener of the
\*     tracked child, once the call has returned, the 'close' listener has
\*     been replaced and the child is no longer tracked (a pid is tracked
\*     only from its spawn on, never again after it was replaced).
collect(c, k, proc, pc) ==
    IF c.state = "closed" /\ pc = "done"
    THEN [Unborn EXCEPT !.state = "closed", !.killTimer = c.killTimer]
    ELSE IF c.state = "unborn" THEN c
    ELSE [c EXCEPT !.isReady = IF pc = "done" THEN FALSE ELSE @,
                   !.detectedIntegratedMode =
                        IF pc = "done" /\ c.closeL = "stop" /\ proc # k
                        THEN FALSE ELSE @]

\* the state after a callback that ends in s and returns r, the calls of
\* startSentinelMonitor being newCalls
Post(s, r, newCalls) ==
    [proc |-> s.proc, uid |-> s.uid,
     ch |-> [k \in Pids |-> collect(s.ch[k], k, s.proc, newCalls[k].pc)],
     calls |-> newCalls,
     lastUpdate |-> LastStatus(s.out, lastUpdate),
     emitted |-> s.out,
     ret |-> r]

Session(p) ==
    /\ sentinelProcess' = p.proc
    /\ sentinelUserId' = p.uid
    /\ children' = p.ch
    /\ calls' = p.calls
    /\ lastUpdate' = p.lastUpdate
    /\ emitted' = p.emitted
    /\ ret' = p.ret

Commit(p) ==
    /\ Session(p)
    /\ UNCHANGED <<platform, stream, svc>>

\* the index of the next call of startSentinelMonitor
nextCall == 1 + Cardinality({k \in Pids : calls[k].pc # "idle"})

\* ------------------------------------------------------------ callbacks
\* Each callback as the state it leaves, then as an action.

\* ipcMain.on('update-sentinel-user') with a non-empty user id u, as call k
AfterUpdateSentinelUser(k, u, scriptExists, venvPython, spawned) ==
    LET r == startEntry([Here EXCEPT !.uid = u], k, u, scriptExists,
                        venvPython, spawned)
    IN  Post(r.st, NoRet, [calls EXCEPT ![k] = [pc |-> r.pc, res |-> r.res]])


\* ipcMain.on('update-sentinel-user') with an empty user id
AfterLogout ==
    LET r == stopSentinelMonitor(Here)
    IN  Post([r.st EXCEPT !.uid = NoUser], StopRet(r.res), calls)

\* the test `userId && userId.trim() !== ''` of the handler
isUserId(raw) == raw # "" /\ trim(raw) # ""

\* ipcMain.on('update-sentinel-user') with the raw user id, as call k if it
\* starts the monitor
AfterIpc(raw, k, scriptExists, venvPython, spawned) ==
    IF isUserId(raw)
    THEN AfterUpdateSentinelUser(k, trim(raw), scriptExists, venvPython,
                                 spawned)
    ELSE AfterLogout

UpdateSentinelUser(u) ==
    /\ nextCall \in Pids
    /\ u = UserIds[nextCall]
    /\ \E raw \in {u, pad(u)}, scriptExists \in BOOLEAN,
          venvPython \in BOOLEAN, spawned \in SpawnResults :
         Commit(AfterIpc(raw, nextCall, scriptExists, venvPython, spawned))

Logout ==
    \E raw \in Blank : Commit(AfterIpc(raw, nextCall, TRUE, TRUE, "pid"))

\* the exec callback of the system Python lookup of call k
AfterLookupDone(k, found, spawned) ==
    LET r == lookupDone(Here, k, UserIds[k], found, spawned)
    IN  Post(r.st, NoRet, [calls EXCEPT ![k] = [pc |-> r.pc, res |-> r.res]])

LookupDone(k) ==
    /\ calls[k].pc = "lookup"
    /\ \E found \in BOOLEAN, spawned \in SpawnResults :
         Commit(AfterLookupDone(k, found, spawned))

\* the 1500 ms timer of call k
AfterGraceDone(k) ==
    LET r == graceDone(Here, k)
    IN  Post(r.st, NoRet, [calls EXCEPT ![k] = [pc |-> r.pc, res |-> r.res]])

GraceDone(k) ==
    /\ calls[k].pc = "grace"
    /\ Commit(AfterGraceDone(k))

\* a child whose streams can still deliver data
canOutput(k) == children[k].state \in {"alive", "exited"}

\* a chunk arrives on the stdout of child k
AfterStdout(k, chunk) == Post(stdoutData(Here, k, chunk), NoRet, calls)

Stdout(k, chunk) ==
    /\ canOutput(k)
    /\ Commit(AfterStdout(k, chunk))

\* a chunk arrives on the stderr of child k
AfterStderr(k, chunk) == Post(stderrData(Here, k, chunk), NoRet, calls)

Stderr(k, chunk) ==
    /\ canOutput(k)
    /\ Commit(AfterStderr(k, chunk))

\* the OS process of child k ends (by itself, by the signal it was sent or
\* by anything else); nothing of main.ts runs
Exit(k, code) ==
    /\ children[k].state = "alive"
    /\ Commit(Post([Here EXCEPT !.ch[k].state = "exited",
                                !.ch[k].code = code], NoRet, calls))

\* the 'close' event of child k is delivered to its listener
AfterClose(k) ==
    LET code == children[k].code
        s == [Here EXCEPT !.ch[k].state = "closed"]
    IN  Post(IF children[k].closeL = "start"
             THEN startClose(s, k, code)
             ELSE stopClose(s, k, code),
             NoRet, calls)

Close(k) ==
    /\ children[k].state = "exited"
    /\ Commit(AfterClose(k))

\* the 3 s timer of stopSentinelMonitor for child k
AfterKillTimer(k) == Post(killTimerFired(Here, k), NoRet, calls)

KillTimer(k) ==
    /\ children[k].killTimer
    /\ Commit(AfterKillTimer(k))

\* the 'error' event of the child without a pid that call k spawned: the
\* call returned before it attached any listener, so the EventEmitter
\* throws the error
AfterSpawnError(k) ==
    Post([Here EXCEPT !.ch[k] = Unborn],
         IF children[k].errL THEN NoRet ELSE Uncaught, calls)

SpawnError(k) ==
    /\ children[k].state = "failed"
    /\ Commit(AfterSpawnError(k))

\* ipcMain.handle('check-sentinel-status')
AfterCheckStatus ==
    LET r == checkSentinelStatus(Here)
    IN  Post(r.st, r.q, calls)

CheckStatus == Commit(AfterCheckStatus)

Next ==
    \/ \E u \in Users : UpdateSentinelUser(u)
    \/ Logout
    \/ \E k \in Pids : LookupDone(k)
    \/ \E k \in Pids : GraceDone(k)
    \/ \E k \in Pids, chunk \in Chunks : Stdout(k, chunk)
    \/ \E k \in Pids, chunk \in Chunks : Stderr(k, chunk)
    \/ \E k \in Pids, code \in ExitCodes : Exit(k, code)
    \/ \E k \in Pids : Close(k)
    \/ \E k \in Pids : KillTimer(k)
    \/ \E k \in Pids : SpawnError(k)
    \/ CheckStatus

Spec == Init /\ [][Next]_vars

\* What the event loop and the operating system guarantee: a pending exec
\* callback or timer fires, a pending 'error' or 'close' event is delivered,
\* and a child that was sent taskkill /f or SIGKILL ends.  Nothing makes a
\* child end that was only sent SIGTERM, a request arrive, or a child write.
ForcedExit(k) ==
    /\ children[k].signal \in {"taskkill", "SIGKILL"}
    /\ \E code \in ExitCodes : Exit(k, code)

Fairness ==
    \A k \in Pids :
        /\ WF_vars(LookupDone(k))
        /\ WF_vars(GraceDone(k))
        /\ WF_vars(KillTimer(k))
        /\ WF_vars(SpawnError(k))
        /\ WF_vars(Close(k))
        /\ WF_vars(ForcedExit(k))

FairSpec == Spec /\ Fairness

\* ======================================================================
\* Part II: chunks
\*
\* The 'data' listeners of main.ts receive whatever the pipe delivers: a
\* chunk need not end at a line end.  A text is a sequence of pieces; a
\* line that carries marker m is the two halves of m followed by the line
\* end, so that a chunk boundary can fall inside the marker.
NL == <<"\n", 0>>
fragments(m) == << <<m, 1>>, <<m, 2>> >>
line(m) == fragments(m) \o <<NL>>
PlainLine == << <<"text", 1>>, NL >>

StreamMarkers(on) == IF on = "stdout" THEN {READY, INTEGRATED} ELSE {"FATAL"}
LinesOf(on) == {line(m) : m \in StreamMarkers(on)} \cup {PlainLine}
Texts(on) == UNION {[1..n -> LinesOf(on)] : n \in 1..MaxLines}

RECURSIVE concat(_)
concat(ls) == IF ls = <<>> THEN <<>> ELSE Head(ls) \o concat(Tail(ls))

\* the text the child writes in all
written == concat(stream.lines)

\* data.toString().trim() followed by output.includes(marker): the markers
\* that occur whole in the chunk
toMarkers(chunk) ==
    {m \in Tokens : \E i \in 1..(Len(chunk) - 1) :
                        chunk[i] = <<m, 1>> /\ chunk[i + 1] = <<m, 2>>}

\* the 'data' listener of stream on of child 1 applied to a chunk
classify(s, on, chunk) ==
    IF on = "stdout"
    THEN stdoutData(s, 1, toMarkers(chunk))
    ELSE stderrData(s, 1, toMarkers(chunk))

\* The supervisor just after 'update-sentinel-user'("u1") spawned child 1:
\* child 1 is alive and tracked, the call is in its grace period.
ChunkChildren ==
    [k \in Pids |-> IF k = 1
                    THEN [Unborn EXCEPT !.state = "alive", !.closeL = "start",
                                        !.errL = TRUE, !.userId = "u1"]
                    ELSE Unborn]

ChunkStart == [proc |-> 1, uid |-> "u1", ch |-> ChunkChildren, out |-> <<>>]

ChunkInit ==
    /\ platform \in Platforms
    /\ sentinelProcess = 1
    /\ sentinelUserId = "u1"
    /\ children = ChunkChildren
    /\ calls = [k \in Pids |-> IF k = 1 THEN [pc |-> "grace", res |-> "none"]
                               ELSE [pc |-> "idle", res |-> "none"]]
    /\ lastUpdate = Upd(TRUE, "Initializing", 1, "u1", {}, TRUE)
    /\ emitted = <<Upd(FALSE, "Starting...", NoPid, NoUser, {}, FALSE),
                   Upd(TRUE, "Initializing", 1, "u1", {}, TRUE)>>
    /\ ret = NoRet
    /\ \E on \in {"stdout", "stderr"} : \E ls \in Texts(on) :
         stream = [on |-> on, lines |-> ls, pos |-> 0, seen |-> <<>>]
    /\ svc = SvcInit

\* the next n pieces of the text arrive as one chunk
AfterData(n) ==
    Post(classify(Here, stream.on,
                  SubSeq(written, stream.pos + 1, stream.pos + n)),
         NoRet, calls)

Data(n) ==
    /\ stream.pos + n <= Len(written)
    /\ Session(AfterData(n))
    /\ stream' = [stream EXCEPT !.pos = @ + n,
                                !.seen = @ \o Statuses(AfterData(n).emitted)]
    /\ UNCHANGED <<platform, svc>>

StdoutChunk(n) == stream.on = "stdout" /\ Data(n)
StderrChunk(n) == stream.on = "stderr" /\ Data(n)

ChunkNext ==
    \/ \E n \in 1..(3 * MaxLines) : StdoutChunk(n)
    \/ \E n \in 1..(3 * MaxLines) : StderrChunk(n)

ChunkSpec == ChunkInit /\ [][ChunkNext]_vars

\* the listener applied to each chunk of chunks in turn, from s
RECURSIVE deliver(_, _, _)
deliver(s, on, chunks) ==
    IF chunks = <<>> THEN s
    ELSE deliver(classify(s, on, Head(chunks)), on, Tail(chunks))

\* the statuses published when the text arrives as one chunk, and when it
\* arrives line by line
oneChunk(on, ls) == Statuses(deliver(ChunkStart, on, <<concat(ls)>>).out)
perLine(on, ls) == Statuses(deliver(ChunkStart, on, ls).out)

\* ======================================================================
\* Part III: src/backend/sentinel-service.js
\*
\* svc.proc is the pid of the service's sentinelProcess (NoPid for null),
\* svc.running .. svc.lastError are the fields of processInfo (startTime,
\* lastUpdate and monitorStatus, which nothing reads back, are left out),
\* svc.kids the children it spawned, svc.res the last HTTP response and
\* svc.up whether the service process is still there.  The k-th spawn
\* yields the child of pid k.
SvcUsers == {"u1", "u2"}
AdminYes == "Admin privileges: YES"
SvcChunks == {{}} \cup {{m} : m \in {AdminYes} \cup AdminMarkers}

nextSvc == 1 + Cardinality({k \in SvcPids : svc.kids[k].state # "unborn"})

\* stopSentinel().  On win32 taskkill is spawned, which cannot throw; on
\* posix process.kill(-pid, 'SIGTERM') addresses the process group of the
\* child, which exists only if the child made itself a group leader (it is
\* spawned with detached: false), and throws otherwise.
stopSentinel(v, groupExists) ==
    IF v.proc = NoPid THEN [st |-> v, ok |-> TRUE]
    ELSE LET k == v.proc
             live == v.kids[k].state = "alive"
             done == [v EXCEPT !.running = FALSE, !.proc = NoPid,
                               !.kids[k].signalled = @ \/ live]
         IN  IF platform = "win32" THEN [st |-> done, ok |-> TRUE]
             ELSE IF live /\ groupExists THEN [st |-> done, ok |-> TRUE]
             ELSE [st |-> v, ok |-> FALSE]

\* startSentinel(userId), its spawn being the k-th
startSentinel(v, k, u, scriptExists, spawned) ==
    IF ~scriptExists THEN [st |-> v, ok |-> FALSE]
    ELSE LET v1 == [v EXCEPT !.adminRequired = FALSE, !.lastError = "null"]
         IN  IF spawned = "throws"
             THEN [st |-> [v1 EXCEPT !.lastError = "error.message"],
                   ok |-> FALSE]
             ELSE IF spawned = "nopid"
             THEN [st |-> [v1 EXCEPT !.proc = k, !.kids[k].state = "failed"],
                   ok |-> FALSE]
             ELSE [st |-> [v1 EXCEPT !.proc = k, !.kids[k].state = "alive",
                                     !.running = TRUE, !.pid = k,
                                     !.adminMode = FALSE,
                                     !.adminRequired = FALSE,
                                     !.userId = u, !.lastError = "null"],
                   ok |-> TRUE]

\* app.post('/start')
postStart(v, k, u, scriptExists, spawned, groupExists) ==
    IF v.proc # NoPid /\ v.running /\ u = v.userId
    THEN [v EXCEPT !.res = "already"]
    ELSE LET v1 == IF v.proc # NoPid /\ v.running
                   THEN [stopSentinel(v, groupExists).st
                            EXCEPT !.kids[v.proc].replaced = TRUE]
                   ELSE v
             r == startSentinel(v1, k, u, scriptExists, spawned)
         IN  [r.st EXCEPT !.res = IF r.ok THEN "started" ELSE "failed"]

\* app.post('/stop')
postStop(v, groupExists) ==
    IF v.proc = NoPid THEN [v EXCEPT !.res = "not-running"]
    ELSE LET r == stopSentinel(v, groupExists)
         IN  [r.st EXCEPT !.res = IF r.ok THEN "stopped" ELSE "stop-failed"]

\* app.get('/status'): process.kill(pid, 0) throws for a child that is gone
\* or has no pid
getStatus(v) ==
    LET v1 == IF v.proc # NoPid /\ v.running
                 /\ v.kids[v.proc].state # "alive"
              THEN [v EXCEPT !.running = FALSE, !.proc = NoPid]
              ELSE v
    IN  [v1 EXCEPT !.res = IF v1.running THEN "running" ELSE "not-running"]

\* sentinelProcess.stdout.on('data') of the service
svcStdout(v, chunk) ==
    LET v1 == IF includes(chunk, AdminYes)
              THEN [v EXCEPT !.adminMode = TRUE] ELSE v
    IN  IF \E m \in AdminMarkers : includes(chunk, m)
        THEN [v1 EXCEPT !.adminRequired = TRUE,
                        !.lastError = "Administrator privileges required"]
        ELSE v1

\* sentinelProcess.stderr.on('data') of the service
svcStderr(v, chunk) ==
    IF \E m \in AdminMarkers : includes(chunk, m)
    THEN [v EXCEPT !.adminRequired = TRUE,
                   !.lastError = "Administrator privileges required"]
    ELSE IF v.lastError = "null"
    THEN [v EXCEPT !.lastError = "errorOutput"]
    ELSE v

\* sentinelProcess.on('close') of child k of the service
svcClose(v, k) ==
    LET v1 == [v EXCEPT !.running = FALSE, !.proc = NoPid,
                        !.kids[k].state = "closed"]
    IN  IF v.kids[k].code # "0" /\ v1.lastError = "null"
        THEN [v1 EXCEPT !.lastError = "Process exited with code"]
        ELSE v1

\* sentinelProcess.on('error') of child k of the service.  As in main.ts,
\* nothing makes Node emit 'error' on a child that has a pid, so no action
\* delivers it.
svcError(v, k) ==
    [v EXCEPT !.running = FALSE, !.lastError = "err.message",
              !.proc = NoPid]

\* The 'error' event of a child without pid: startSentinel returned before
\* it attached a listener, the error is thrown and reaches
\* process.on('uncaughtException'), which stops the tracked child and
\* exits; process.on('exit') then runs stopSentinel once more.
svcUncaught(v, k, groupExists) ==
    LET v1 == stopSentinel(v, groupExists).st
        v2 == stopSentinel(v1, groupExists).st
    IN  [v2 EXCEPT !.up = FALSE, !.kids[k].state = "closed"]

SvcCommit(v) ==
    /\ svc' = v
    /\ UNCHANGED <<platform, sentinelProcess, sentinelUserId, children,
                   calls, lastUpdate, emitted, ret, stream>>

PostStart(u) ==
    /\ svc.up
    /\ nextSvc \in SvcPids
    /\ \E scriptExists \in BOOLEAN, spawned \in SpawnResults,
          groupExists \in BOOLEAN :
         SvcCommit(postStart(svc, nextSvc, u, scriptExists, spawned,
                             groupExists))

PostStop ==
    /\ svc.up
    /\ \E groupExists \in BOOLEAN : SvcCommit(postStop(svc, groupExists))

GetStatus ==
    /\ svc.up
    /\ SvcCommit(getStatus(svc))

SvcStdout(k, chunk) ==
    /\ svc.up
    /\ svc.kids[k].state \in {"alive", "exited"}
    /\ SvcCommit(svcStdout(svc, chunk))

SvcStderr(k, chunk) ==
    /\ svc.up
    /\ svc.kids[k].state \in {"alive", "exited"}
    /\ SvcCommit(svcStderr(svc, chunk))

\* the OS process of child k of the service ends
SvcExit(k, code) ==
    /\ svc.up
    /\ svc.kids[k].state = "alive"
    /\ SvcCommit([svc EXCEPT !.kids[k].state = "exited",
                             !.kids[k].code = code])

SvcClose(k) ==
    /\ svc.up
    /\ svc.kids[k].state = "exited"
    /\ SvcCommit(svcClose(svc, k))

SvcSpawnError(k) ==
    /\ svc.up
    /\ svc.kids[k].state = "failed"
    /\ \E groupExists \in BOOLEAN :
         SvcCommit(svcUncaught(svc, k, groupExists))

SvcNext ==
    \/ \E u \in SvcUsers : PostStart(u)
    \/ PostStop
    \/ GetStatus
    \/ \E k \in SvcPids, chunk \in SvcChunks : SvcStdout(k, chunk)
    \/ \E k \in SvcPids, chunk \in SvcChunks : SvcStderr(k, chunk)
    \/ \E k \in SvcPids, code \in ExitCodes : SvcExit(k, code)
    \/ \E k \in SvcPids : SvcClose(k)
    \/ \E k \in SvcPids : SvcSpawnError(k)

SvcSpec == Init /\ [][SvcNext]_vars


\* ======================================================================
\* Properties
\*
\* A property of a callback is stated over AfterX, the state the callback
\* leaves when it runs in the current state, in every reachable state in
\* which the callback can run.
\* ======================================================================
alive == {k \in Pids : children[k].state = "alive"}
started == {k \in Pids : calls[k].pc # "idle"}

\* the current state, in the shape of Post
Now == [proc |-> sentinelProcess, uid |-> sentinelUserId, ch |-> children,
        calls |-> calls, lastUpdate |-> lastUpdate, emitted |-> emitted,
        ret |-> ret]

ActiveStatuses == {"Starting...", "Initializing", "Running",
                   "Running (Integrated)"}
StoppedStatuses == {"Stopped", "Stopped by User"}
CrashedStatuses == {"Exited (code 1, signal null)", "Error: Integrated Monitor Crashed",
                    "Error", "Crashed / Stale Handle"}

\* the first status update a callback sent
FirstStatus(out) == StatusUpdates(out)[1]

\* C1 (singleton session): at most one monitor child is alive at any time,
\* and the stored user id is that of the last start request (or null, after
\* a logout).
C1_SingletonSession ==
    /\ Cardinality(alive) <= 1
    /\ started # {} =>
          sentinelUserId \in {NoUser, UserIds[Cardinality(started)]}

\* C2 (exit always wins): when the 'close' event of a child is delivered,
\* the next status published is a stopped status if the exit code is 0 and
\* integrated mode had not been announced, and a crashed/error status
\* otherwise.
C2_ExitAlwaysWins ==
    \A k \in Pids :
        children[k].state = "exited" =>
            LET p == AfterClose(k)
            IN  /\ Len(StatusUpdates(p.emitted)) >= 1
                /\ FirstStatus(p.emitted).status \in
                     (IF children[k].code = "0"
                         /\ ~children[k].detectedIntegratedMode
                      THEN StoppedStatuses ELSE CrashedStatuses)

\* C3 (stale-event rejection): once child k has been replaced by another
\* tracked child, a chunk of stdout or stderr of k changes neither the
\* published status nor any field of the session, and publishes nothing.
C3_StaleOutputIgnored ==
    \A k \in Pids, chunk \in Chunks :
        (canOutput(k) /\ sentinelProcess \in Pids \ {k}) =>
            \A p \in {AfterStdout(k, chunk), AfterStderr(k, chunk)} :
                /\ p.lastUpdate = lastUpdate
                /\ p.proc = sentinelProcess
                /\ p.uid = sentinelUserId
                /\ p.ch = children
                /\ p.calls = calls
                /\ p.emitted = <<>>

\* a child that was replaced can still deliver output while the
\* replacement is the tracked child, reported as running
C3_Witness ==
    \E k \in Pids :
        /\ canOutput(k)
        /\ sentinelProcess \in Pids \ {k}
        /\ lastUpdate.pid = sentinelProcess
        /\ lastUpdate.running

\* C4 (grace-window crash): if the child of call k exits with a non-zero
\* code before the grace period of the call ends, no status update with
\* running = true is published for that child during the attempt, the call
\* returns a failure and an error text is reported with the status.
C4_GraceWindowCrash ==
    \A k \in Pids :
        (/\ calls[k].pc = "grace"
         /\ children[k].state \in {"exited", "closed"}
         /\ children[k].code = "1")
        => /\ ~(lastUpdate.pid = k /\ lastUpdate.running)
           /\ AfterGraceDone(k).calls[k].res = "fail"
           /\ AfterGraceDone(k).lastUpdate.error # {}

\* C5 (liveness reconciliation): a status query on a tracked handle whose
\* process is gone returns running = false with the crashed status and
\* clears the handle; with no handle a query returns running = false and
\* 'Stopped'; a cleared handle stays cleared until a child is spawned.
C5_LivenessReconciliation ==
    /\ [](LET p == AfterCheckStatus
          IN  /\ (sentinelProcess # NoPid
                  /\ children[sentinelProcess].state # "alive")
                 => /\ ~p.ret.running
                    /\ p.ret.status = "Crashed / Stale Handle"
                    /\ p.proc = NoPid
              /\ sentinelProcess = NoPid
                 => /\ ~p.ret.running
                    /\ p.ret.status = "Stopped"
                    /\ p.proc = NoPid)
    /\ [][(sentinelProcess = NoPid /\ sentinelProcess' # NoPid)
          => children[sentinelProcess'].state = "unborn"]_vars

C5_Witness ==
    /\ ret.op = "status"
    /\ ret.status = "Crashed / Stale Handle"
    /\ ~ret.running
    /\ sentinelProcess = NoPid
    /\ \E k \in Pids : ret.pid = k /\ children[k].state = "exited"

\* C6 (idempotent stop): stop with no tracked child returns success,
\* publishes 'Stopped', signals and spawns nothing; a second such stop right
\* after the first changes nothing at all.
C6_IdempotentStop ==
    sentinelProcess = NoPid =>
        LET p == AfterLogout
        IN  /\ p.ret.op = "stop" /\ p.ret.success
            /\ p.lastUpdate.status = "Stopped" /\ ~p.lastUpdate.running
            /\ p.proc = NoPid
            /\ p.ch = children
            /\ p.calls = calls
            /\ (ret.op = "stop" /\ emitted # <<>>) => p = Now

\* a stop that found no handle has just run
C6_Witness ==
    /\ ret.op = "stop" /\ ret.success
    /\ emitted = <<Upd(FALSE, "Stopped", NoPid, NoUser, {}, TRUE)>>
    /\ sentinelProcess = NoPid
    /\ alive = {}

\* C7 (handle/status invariant): between callbacks the handle is non-null
\* exactly when the last published status is starting, initializing,
\* running or running-integrated.
C7_HandleIffActive ==
    (sentinelProcess # NoPid) <=> (lastUpdate.status \in ActiveStatuses)

\* C8 (ready marker): a stdout chunk with SENTINEL_READY of the tracked
\* child publishes 'Running' for it, unless integrated mode was detected
\* (before, or in the same chunk): then 'Running' is not published and a
\* reported 'Running (Integrated)' stays.
C8_ReadyMarker ==
    \A k \in Pids, chunk \in Chunks :
        (sentinelProcess = k /\ canOutput(k) /\ includes(chunk, READY)) =>
            LET p == AfterStdout(k, chunk)
            IN  IF children[k].detectedIntegratedMode
                   \/ includes(chunk, INTEGRATED)
                THEN /\ \A m \in 1..Len(p.emitted) :
                            p.emitted[m].status # "Running"
                     /\ (lastUpdate.status = "Running (Integrated)"
                         \/ includes(chunk, INTEGRATED))
                        => p.lastUpdate.status = "Running (Integrated)"
                ELSE /\ p.lastUpdate.status = "Running"
                     /\ p.lastUpdate.running
                     /\ p.lastUpdate.pid = k
                     /\ p.ch[k].isReady \/ calls[k].pc = "done"

\* SENTINEL_READY of the tracked child has been handled
C8_Witness ==
    \E k \in Pids :
        /\ sentinelProcess = k
        /\ children[k].isReady
        /\ ~children[k].detectedIntegratedMode
        /\ lastUpdate.status = "Running"
        /\ lastUpdate.pid = k

isAdminLine(chunk) == \E m \in AdminMarkers : includes(chunk, m)

\* C9 (admin marker): a chunk with 'requires administrator privileges' or
\* 'run as administrator' on stdout or stderr of the tracked child sets the
\* status to 'Requires Admin' and reports an error text.
C9_AdminMarker ==
    \A k \in Pids, chunk \in Chunks :
        (sentinelProcess = k /\ canOutput(k) /\ isAdminLine(chunk)) =>
            \A p \in {AfterStdout(k, chunk), AfterStderr(k, chunk)} :
                /\ p.lastUpdate.status = "Requires Admin"
                /\ p.lastUpdate.error # {}

SpawnPublishes(p, k) ==
    /\ Statuses(p.emitted) = <<"Starting...", "Initializing">>
    /\ p.lastUpdate.running
    /\ p.lastUpdate.pid = k
    /\ p.lastUpdate.userId = UserIds[k]
    /\ p.proc = k

\* C11 (start, ready): a start with a non-empty user id whose spawn succeeds
\* publishes 'Starting...' then 'Initializing'; SENTINEL_READY of the tracked
\* child then publishes 'Running'; once the child has reported ready the
\* post-grace check publishes nothing (no 'Initializing' after 'Running')
\* and, with the child alive, returns success; a status query on the live
\* tracked child returns running = true with the stored user id, which is
\* that of the start unless a later start replaced it or a stop cleared it.
C11_StartReadySequence ==
    \A k \in Pids :
        /\ nextCall = k
           => \A raw \in {UserIds[k], pad(UserIds[k])} :
                 LET p == AfterIpc(raw, k, TRUE, TRUE, "pid")
                 IN  SpawnPublishes(p, k) /\ p.uid = UserIds[k]
        /\ calls[k].pc = "lookup"
           => LET p == AfterLookupDone(k, TRUE, "pid")
              IN  SpawnPublishes(p, k) /\ p.uid = sentinelUserId
        /\ (/\ sentinelProcess = k
            /\ canOutput(k)
            /\ ~children[k].detectedIntegratedMode)
           => Statuses(AfterStdout(k, {READY}).emitted) = <<"Running">>
        /\ (calls[k].pc = "grace" /\ children[k].isReady)
           => LET p == AfterGraceDone(k)
              IN  /\ p.emitted = <<>>
                  /\ p.lastUpdate = lastUpdate
                  /\ (sentinelProcess = k /\ children[k].state = "alive")
                     => p.calls[k].res = "ok" /\ p.proc = k
        /\ (sentinelProcess = k /\ children[k].state = "alive")
           => LET p == AfterCheckStatus
              IN  /\ p.ret.running
                  /\ p.ret.pid = k
                  /\ p.ret.userId = sentinelUserId
                  /\ (nextCall = k + 1 /\ sentinelUserId # NoUser)
                     => p.ret.userId = UserIds[k]

\* a start went through 'Running' and its grace check, and a status query
\* on the live child followed
C11_Witness ==
    \E k \in Pids :
        /\ calls[k] = [pc |-> "done", res |-> "ok"]
        /\ sentinelProcess = k
        /\ children[k].state = "alive"
        /\ lastUpdate.status = "Running"
        /\ lastUpdate.pid = k
        /\ ret.op = "status" /\ ret.running /\ ret.userId = UserIds[k]

\* stop was requested for child k while call k is in its grace period, and
\* no later start has been requested
StopInGrace(k) ==
    /\ calls[k].pc = "grace"
    /\ children[k].closeL = "stop"
    /\ nextCall = k + 1

\* child k has exited and its 'close' was delivered; unless a later start
\* was requested, the published status is a stopped one and no handle is
\* tracked
StoppedFor(k) ==
    /\ children[k].state = "closed"
    /\ nextCall = k + 1
       => /\ lastUpdate.status \in StoppedStatuses
          /\ ~lastUpdate.running
          /\ sentinelProcess = NoPid

\* C12 (stop during the grace period): if stop is requested while the start
\* is in its post-spawn grace period, then eventually the child has exited,
\* the published status is stopped and no handle is tracked.
C12_StopDuringGrace == \A k \in Pids : StopInGrace(k) ~> StoppedFor(k)

C14_ForcefulKill ==
    \A k \in Pids :
        (/\ children[k].killTimer
         /\ children[k].signal = "SIGTERM"
         /\ children[k].state = "alive")
        => LET p == AfterKillTimer(k)
           IN  /\ p.ch[k].signal = "SIGKILL"
               /\ p.ch[k].state # "alive"

\* C15 (stop on a dead handle): stop on a tracked handle whose process has
\* exited, its 'close' not yet delivered, returns success and leaves no
\* handle tracked.
C15_StopDeadHandle ==
    \A k \in Pids :
        (sentinelProcess = k /\ children[k].state = "exited")
        => LET p == AfterLogout
           IN  /\ p.ret.op = "stop" /\ p.ret.success
               /\ p.proc = NoPid

\* C16 (no failure escapes): no callback ends in an uncaught exception or
\* an unhandled 'error' event, and a stop that returns a failure publishes a
\* status update with it.
C16_NoFailureEscapes ==
    /\ ret.op # "uncaught"
    /\ (ret.op = "stop" /\ ~ret.success)
       => Len(StatusUpdates(emitted)) >= 1

\* C17 (fields of a status update): every status update sent carries
\* running, status, admin and requiresAdmin.
C17_StatusFields ==
    \A i \in 1..Len(emitted) :
        emitted[i].ch = "sentinel-status-update" => emitted[i].full

\* C18 (one exit event per exit): the delivery of the 'close' event of a
\* child sends exactly one 'sentinel-stopped' event, with its exit code.
C18_OneStoppedEvent ==
    \A k \in Pids :
        children[k].state = "exited"
        => SelectSeq(AfterClose(k).emitted,
                     LAMBDA m : m.ch = "sentinel-stopped")
              = <<StoppedEvt(children[k].code)>>

\* C19 (query equals published status): while the tracked child is alive,
\* a status query returns the running flag and the status of the last
\* published status update.
C19_QueryMatchesPublished ==
    (sentinelProcess # NoPid /\ children[sentinelProcess].state = "alive")
    => LET p == AfterCheckStatus
       IN  /\ p.ret.running = lastUpdate.running
           /\ p.ret.status = lastUpdate.status

\* C20 (stale exit is silent): once another child is tracked, the 'close'
\* of a replaced child publishes no status update.
C20_StaleCloseSilent ==
    \A k \in Pids :
        (children[k].state = "exited" /\ sentinelProcess \in Pids \ {k})
        => LET p == AfterClose(k)
           IN  /\ StatusUpdates(p.emitted) = <<>>
               /\ p.lastUpdate = lastUpdate

\* C21 (no early 'stopped'): while a child that stop has signalled is still
\* alive and no later start was requested, no stopped status has been
\* published for the session and a status query does not return one.
C21_NoEarlyStopped ==
    \A k \in Pids :
        (/\ children[k].state = "alive"
         /\ children[k].signal \in {"taskkill", "SIGTERM"}
         /\ nextCall = k + 1)
        => /\ lastUpdate.status \notin StoppedStatuses
           /\ AfterCheckStatus.ret.status \notin StoppedStatuses

\* C22 (exit does not downgrade an error): if the last published status is
\* the 'Error' of a fatal marker of child k, the 'close' of child k,
\* whatever its exit code, does not publish a stopped status.
C22_ExitKeepsError ==
    \A k \in Pids :
        (/\ children[k].state = "exited"
         /\ lastUpdate.status = "Error"
         /\ lastUpdate.pid = k)
        => AfterClose(k).lastUpdate.status \notin StoppedStatuses

\* C27 (no orphan): every child that is alive is the tracked child or has
\* been sent a termination signal.
C27_NoOrphan ==
    \A k \in Pids :
        children[k].state = "alive"
        => sentinelProcess = k \/ children[k].signal # "none"

\* C28 (logout wins): once a request without a user id was the last request
\* and every call of start has returned, no live child is tracked and every
\* live child has been sent a termination signal.
C28_LogoutLeavesNoChild ==
    (/\ started # {}
     /\ sentinelUserId = NoUser
     /\ \A k \in Pids : calls[k].pc \in {"idle", "done"})
    => \A k \in Pids :
          children[k].state = "alive"
          => sentinelProcess # k /\ children[k].signal # "none"

\* C29 (success means running): the grace check of call k returns success
\* only if child k is alive and tracked.
C29_SuccessMeansRunning ==
    \A k \in Pids :
        (calls[k].pc = "grace" /\ AfterGraceDone(k).calls[k].res = "ok")
        => sentinelProcess = k /\ children[k].state = "alive"

\* C30 (user id of a status update): every status update sent with a pid
\* carries the user id the child of that pid was launched for.
C30_UpdateCarriesLaunchUser ==
    \A i \in 1..Len(emitted) :
        (emitted[i].ch = "sentinel-status-update" /\ emitted[i].pid # NoPid)
        => emitted[i].userId = UserIds[emitted[i].pid]

\* the state a callback that does nothing leaves
Untouched(p) ==
    /\ p.proc = sentinelProcess
    /\ p.uid = sentinelUserId
    /\ p.lastUpdate = lastUpdate
    /\ p.emitted = <<>>

ErrorStatuses == {"Error: Spawn Failed", "Start Error", "Failed to Start/Run"}

\* what start reports when its spawn fails: failure, an error status with
\* running = false, no handle
SpawnFailed(p, k) ==
    /\ p.calls[k] = [pc |-> "done", res |-> "fail"]
    /\ p.proc = NoPid
    /\ p.lastUpdate.status \in ErrorStatuses
    /\ ~p.lastUpdate.running

\* C25 (spawn-level failure): when the spawn of call k yields no pid or
\* throws, and when the tracked child k emits 'error' during the grace
\* period, the call returns failure, the last published status is an error
\* status and the handle is null.
C25_SpawnFailure ==
    \A k \in Pids :
        /\ nextCall = k
           => \A u \in Users, spawned \in {"nopid", "throws"} :
                SpawnFailed(AfterIpc(u, k, TRUE, TRUE, spawned), k)
        /\ calls[k].pc = "lookup"
           => \A spawned \in {"nopid", "throws"} :
                SpawnFailed(AfterLookupDone(k, TRUE, spawned), k)
        /\ (calls[k].pc = "grace" /\ sentinelProcess = k /\ children[k].errL)
           => LET e == startError(Here, k)
                  r == graceDone(e, k)
              IN  /\ r.res = "fail"
                  /\ r.st.proc = NoPid
                  /\ LastStatus(r.st.out, lastUpdate).status \in ErrorStatuses
                  /\ ~LastStatus(r.st.out, lastUpdate).running

C25_Witness ==
    \E k \in Pids :
        /\ children[k].state = "failed"
        /\ calls[k] = [pc |-> "done", res |-> "fail"]
        /\ sentinelProcess = NoPid
        /\ lastUpdate.status = "Error: Spawn Failed"

\* C23 (chunking does not matter): once the whole text a child wrote has
\* been delivered, the statuses published are those published when the text
\* arrives as one chunk, and those are the statuses of its lines taken one
\* by one.
C23_ChunkingIrrelevant ==
    (stream.pos > 0 /\ stream.pos = Len(written))
    => /\ stream.seen = oneChunk(stream.on, stream.lines)
       /\ oneChunk(stream.on, stream.lines) = perLine(stream.on, stream.lines)

\* C26 (close of a replaced child): when child k was replaced by POST /start
\* and the replacement is alive, tracked and reported running, the 'close'
\* or 'error' event of child k changes neither processInfo.running nor the
\* tracked handle.
C26_ReplacedCloseHarmless ==
    \A k \in SvcPids :
        (/\ svc.kids[k].replaced
         /\ svc.kids[k].state = "exited"
         /\ svc.proc \notin {NoPid, k}
         /\ svc.kids[svc.proc].state = "alive"
         /\ svc.running /\ svc.pid = svc.proc)
        => /\ svcClose(svc, k).running = svc.running
           /\ svcClose(svc, k).proc = svc.proc
           /\ svcError(svc, k).running = svc.running
           /\ svcError(svc, k).proc = svc.proc

====
